---- MODULE Spec2Model ----
(***************************************************************************)
(* PSD summaries of a run (src/src/psd.py, src/src/utils.py).              *)
(*                                                                         *)
(* A run is a list of time windows.  Each window holds chain files         *)
(* psd.dat.N; save_summary summarizes every window, fills the time gaps    *)
(* of the run with NaN records, sorts the table and pickles it.            *)
(*                                                                         *)
(* Units.  GPS times are integers (seconds).  PSD samples are integers in  *)
(* units of 5e-7, always even, so that the mean of two samples (the median *)
(* of an even number of chains) is again an integer: 2.0 is 4000000 and    *)
(* 1.999999 is 3999998.  Frequencies are the rounded values of the FREQ    *)
(* index, numbered 1..NumFreqs in ascending order.                         *)
(***************************************************************************)
EXTENDS Integers, Sequences, FiniteSets, TLC

\* ------------------------------------------------------------------ bounds
MaxTime == 6           \* observed GPS times are drawn from 1..MaxTime
MaxWindows == 3        \* time windows (directories) of a run
NumChannels == 2       \* leading channels of Run.channels that are modelled
NumFreqs == 2          \* frequency bins of a psd.dat file
MaxChains == 2         \* psd.dat.N files of one time window
MaxSamples == 4        \* length of a sample vector handed to hpd (SpecHpd)
MaxSampleValue == 4    \* sample values of SpecHpd are drawn from 1..MaxSampleValue
GapMaxTime == 8        \* GPS times of SpecGap are drawn from 1..GapMaxTime
GapMaxWindows == 5     \* time windows of a run in SpecGap
MaxFileIndex == 11     \* chain files of SpecImport are psd.dat.0 .. psd.dat.MaxFileIndex
MaxFreq == 4           \* frequencies of SpecFreq are drawn from 0..MaxFreq

\* ------------------------------------------------------- program constants
Two == 4000000         \* psd.py:57, "Strip rows of 2s": the value 2.0
NaN == -1              \* psd.py:119, the value of every cell of the filler

AllChannels == <<"x", "y", "z", "theta", "eta", "phi">>

\* Position of a channel name in the order of its code points, which is the
\* order sort_index gives the CHANNEL level: x y z eta theta phi.
ChannelRank(c) ==
    CASE c = "x" -> 1 [] c = "y" -> 2 [] c = "z" -> 3
      [] c = "eta" -> 4 [] c = "theta" -> 5 [] c = "phi" -> 6

channels == SubSeq(AllChannels, 1, NumChannels)

ChannelSet == {channels[k] : k \in 1..Len(channels)}

FreqAxis == 1..NumFreqs

BaseSample == Two \div 2

SampleValues == {BaseSample, Two - 2, Two, Two + BaseSample}

\* ------------------------------------------------------------ sequences
Range(s) == {s[k] : k \in 1..Len(s)}

RECURSIVE Flatten(_)
Flatten(ss) == IF ss = <<>> THEN <<>> ELSE Head(ss) \o Flatten(Tail(ss))

RECURSIVE InsertAsc(_, _)
InsertAsc(x, s) ==
    IF s = <<>> THEN <<x>>
    ELSE IF x < Head(s) THEN <<x>> \o s
    ELSE <<Head(s)>> \o InsertAsc(x, Tail(s))

\* np.sort / sorted() on numbers
RECURSIVE SortAsc(_)
SortAsc(s) == IF s = <<>> THEN <<>> ELSE InsertAsc(Head(s), SortAsc(Tail(s)))

\* The ascending list of a set of numbers.
RECURSIVE SetToSeq(_)
SetToSeq(S) ==
    IF S = {} THEN <<>>
    ELSE LET m == CHOOSE x \in S : \A y \in S : x <= y
         IN <<m>> \o SetToSeq(S \ {m})

np_diff(s) == [k \in 1..(Len(s) - 1) |-> s[k + 1] - s[k]]

\* Median as the lower of the two middle samples.
MedianLower(s) ==
    LET x == SortAsc(s)
    IN x[(Len(x) + 1) \div 2]

\* np.median / DataFrame.median of a non-empty list of even integers.
Median(s) ==
    LET x == SortAsc(s)
        n == Len(x)
    IN IF n % 2 = 1 THEN x[(n + 1) \div 2]
       ELSE (x[n \div 2] + x[n \div 2 + 1]) \div 2

\* ---------------------------------------------------------------- utils.py
\* Twice np.median(np.diff(gps_times)): the median of an even number of
\* differences is the mean of the two middle ones and may end in .5.
Median2(s) ==
    LET x == SortAsc(s)
        n == Len(x)
    IN IF n % 2 = 1 THEN 2 * x[(n + 1) \div 2]
       ELSE x[n \div 2] + x[n \div 2 + 1]

\* Run.dt, doubled (utils.py:84).
dt2(times) == Median2(np_diff(times))

\* int(self.dt) (utils.py:120): truncation of the median time step.
IntDt(times) == dt2(times) \div 2

\* NumInsert as int(np.floor(diff / dt)), the count of the older gap filler
\* (psd.py:126).
NumInsertFloor(diff, dt) == diff \div dt

\* int(np.ceil(diff / dt) - 1) (utils.py:125)
NumInsert(diff, dt) == (diff + dt - 1) \div dt - 1

RECURSIVE MissingFrom(_, _, _)
MissingFrom(times, dt, i) ==
    IF i > Len(times) - 1 THEN <<>>
    ELSE LET diff == times[i + 1] - times[i]
             new == IF diff > dt + 1
                    THEN [k \in 1..NumInsert(diff, dt) |-> times[i] + dt * k]
                    ELSE <<>>
         IN new \o MissingFrom(times, dt, i + 1)

\* get_missing_times that steps through the end of every gap: one time more
\* for each.
MissingThroughEnd(times) ==
    LET dt == IntDt(times)
    IN Flatten([k \in 1..(Len(times) - 1) |->
           IF times[k + 1] - times[k] > dt + 1
           THEN [m \in 1..(NumInsert(times[k + 1] - times[k], dt) + 1) |->
                    times[k] + dt * m]
           ELSE <<>>])

\* Run.get_missing_times() with the defaults gps_times = self.gps_times and
\* dt = int(self.dt).
get_missing_times(times) == MissingFrom(times, IntDt(times), 1)

\* ------------------------------------------------------------------ psd.py
\* Order of the index (CHANNEL, TIME, FREQ): channel names by code point.
KeyLess(a, b) ==
    \/ ChannelRank(a.CHANNEL) < ChannelRank(b.CHANNEL)
    \/ /\ a.CHANNEL = b.CHANNEL
       /\ \/ a.TIME < b.TIME
          \/ a.TIME = b.TIME /\ a.FREQ < b.FREQ

RECURSIVE InsertRow(_, _)
InsertRow(x, s) ==
    IF s = <<>> THEN <<x>>
    ELSE IF ~KeyLess(Head(s), x) THEN <<x>> \o s
    ELSE <<Head(s)>> \o InsertRow(x, Tail(s))

\* sort_index that leaves the rows as they are.
NoSort(rows) == rows

\* DataFrame.sort_index() / sort_index(level=[0, 1, 2]): a stable sort of the
\* rows by (CHANNEL, TIME, FREQ).
RECURSIVE sort_index(_)
sort_index(rows) ==
    IF rows = <<>> THEN <<>> ELSE InsertRow(Head(rows), sort_index(Tail(rows)))

\* A psd.dat.N file as read by read_csv is one row per frequency with one
\* column per channel: file[f][c].
\* psd.stack() of every file, concatenated horizontally: one row per
\* (FREQ, TIME, CHANNEL), frequency-major, one column per file of psd_files.
Stacked(time, psd_files) ==
    Flatten([f \in 1..NumFreqs |->
        [k \in 1..NumChannels |->
            [CHANNEL |-> channels[k], TIME |-> time, FREQ |-> f,
             samples |-> [j \in 1..Len(psd_files) |-> psd_files[j][f][channels[k]]]]]])

\* Keep as a test of every chain column instead of the first.
StripBug(row) == \A j \in 1..Len(row.samples) : row.samples[j] < Two

\* "Strip rows of 2s": time_data[time_data.iloc[:,0] < 2]
Keep(row) == row.samples[1] < Two

\* pd.concat of an empty list raises ValueError: a window without psd.dat
\* files fails the import.
ImportFails(psd_files) == Len(psd_files) = 0

\* import_time(run, time_dir), for a window that holds at least one file.
import_time(time, psd_files) ==
    SelectSeq(sort_index(Stacked(time, psd_files)), Keep)

\* interval_idx_inc as ceil((1 - alpha) * n) - 1: a window of exactly
\* ceil((1 - alpha) * n) samples.
IdxIncCeil(n, alpha10) == (((10 - alpha10) * n) + 9) \div 10 - 1

\* pymc3.stats.hpd on one sorted row: calc_min_interval(x, alpha), with
\* alpha in tenths.  The interval spans floor((1 - alpha) * n) steps of the
\* sorted samples; np.argmin takes the first narrowest one.  For the two
\* values summarize_psd passes, alpha = 0.5 and alpha = 0.1, the floating
\* point product (1 - alpha) * n has the floor of the exact one.
interval_idx_inc(n, alpha10) == ((10 - alpha10) * n) \div 10

calc_min_interval(x, alpha10) ==
    LET n == Len(x)
        inc == interval_idx_inc(n, alpha10)
        n_intervals == n - inc
        width(k) == x[k + inc] - x[k]
        min_idx == CHOOSE k \in 1..n_intervals :
                      /\ \A m \in 1..n_intervals : width(k) <= width(m)
                      /\ \A m \in 1..(k - 1) : width(m) > width(k)
    IN <<x[min_idx], x[min_idx + inc]>>

hpd(s, alpha10) == calc_min_interval(SortAsc(s), alpha10)

\* One record of summarize_psd: median and the 50% and 90% intervals.
Summary(row) ==
    [CHANNEL |-> row.CHANNEL, TIME |-> row.TIME, FREQ |-> row.FREQ,
     MEDIAN |-> Median(row.samples),
     CI_50_LO |-> hpd(row.samples, 5)[1], CI_50_HI |-> hpd(row.samples, 5)[2],
     CI_90_LO |-> hpd(row.samples, 1)[1], CI_90_HI |-> hpd(row.samples, 1)[2]]

summarize_psd(time, psd_files) ==
    LET time_data == import_time(time, psd_files)
    IN [k \in 1..Len(time_data) |-> Summary(time_data[k])]

Key(r) == [CHANNEL |-> r.CHANNEL, TIME |-> r.TIME, FREQ |-> r.FREQ]

Keys(rows) == {Key(rows[k]) : k \in 1..Len(rows)}

\* summaries.index.unique(level='FREQ')
RECURSIVE UniqueFreq(_, _)
UniqueFreq(rows, seen) ==
    IF rows = <<>> THEN <<>>
    ELSE IF Head(rows).FREQ \in seen THEN UniqueFreq(Tail(rows), seen)
    ELSE <<Head(rows).FREQ>> \o UniqueFreq(Tail(rows), seen \cup {Head(rows).FREQ})

FillerRow(c, t, f) ==
    [CHANNEL |-> c, TIME |-> t, FREQ |-> f, MEDIAN |-> NaN,
     CI_50_LO |-> NaN, CI_50_HI |-> NaN, CI_90_LO |-> NaN, CI_90_HI |-> NaN]

\* Filler for the first channel only.
FillerFirstChannel(missing, frequencies) ==
    Flatten([m \in 1..Len(missing) |->
        [q \in 1..Len(frequencies) |->
            FillerRow(channels[1], missing[m], frequencies[q])]])

\* pd.DataFrame(columns=summaries.columns, index=MultiIndex.from_product(
\*     [run.channels, run.missing_times, frequencies]))
Filler(missing, frequencies) ==
    Flatten([k \in 1..NumChannels |->
        Flatten([m \in 1..Len(missing) |->
            [q \in 1..Len(frequencies) |->
                FillerRow(channels[k], missing[m], frequencies[q])]])])

\* FillGaps without the sort_index.
AppendUnsorted(concat, missing) ==
    concat \o Filler(missing, UniqueFreq(concat, {}))

\* psd.py:107-120: concatenate the window summaries, append the filler, sort.
FillGaps(concat, missing) ==
    sort_index(concat \o Filler(missing, UniqueFreq(concat, {})))

\* DataFrame.to_pickle / pd.read_pickle.  The bytes of the artifact are the
\* row count followed by the eight cells of every row; the channel is written
\* as its position in Run.channels.
ChannelIndex(c) == CHOOSE k \in 1..Len(AllChannels) : AllChannels[k] = c

\* RowBytes with NaN written as 0.
RowBytesNaNAsZero(r) ==
    LET z(v) == IF v = NaN THEN 0 ELSE v
    IN <<ChannelIndex(r.CHANNEL), r.TIME, r.FREQ, z(r.MEDIAN),
         z(r.CI_50_LO), z(r.CI_50_HI), z(r.CI_90_LO), z(r.CI_90_HI)>>

RowBytes(r) ==
    <<ChannelIndex(r.CHANNEL), r.TIME, r.FREQ, r.MEDIAN,
      r.CI_50_LO, r.CI_50_HI, r.CI_90_LO, r.CI_90_HI>>

Pickle(table) ==
    <<Len(table)>> \o Flatten([k \in 1..Len(table) |-> RowBytes(table[k])])

\* A file that is not a whole pickle cannot be loaded (EOFError,
\* UnpicklingError).
Loadable(bytes) == Len(bytes) >= 1 /\ Len(bytes) = 1 + 8 * bytes[1]

Unpickle(bytes) ==
    [k \in 1..bytes[1] |->
        LET b == SubSeq(bytes, 8 * k - 6, 8 * k + 1)
        IN [CHANNEL |-> AllChannels[b[1]], TIME |-> b[2], FREQ |-> b[3],
            MEDIAN |-> b[4], CI_50_LO |-> b[5], CI_50_HI |-> b[6],
            CI_90_LO |-> b[7], CI_90_HI |-> b[8]]]

\* ------------------------------------------------- the files of a window
\* The file psd.dat.n is named by the decimal digits of its chain index n.
RECURSIVE Digits(_)
Digits(n) == IF n < 10 THEN <<n>> ELSE Digits(n \div 10) \o <<n % 10>>

\* The order of str: the first differing character decides, a proper prefix
\* comes first.
RECURSIVE StrLess(_, _)
StrLess(a, b) ==
    IF b = <<>> THEN FALSE
    ELSE IF a = <<>> THEN TRUE
    ELSE IF Head(a) # Head(b) THEN Head(a) < Head(b)
    ELSE StrLess(Tail(a), Tail(b))

\* sorted() of a set of chain indices by their names.
RECURSIVE SortedNames(_)
SortedNames(S) ==
    IF S = {} THEN <<>>
    ELSE LET m == CHOOSE x \in S :
                     \A y \in S \ {x} : StrLess(Digits(x), Digits(y))
         IN <<m>> \o SortedNames(S \ {m})

\* psd_files as sorted(glob('psd.dat.*')): one sort of all the names.
OneSort(dir) == SortedNames(dir)

\* glob('psd.dat.[0-9]') and glob('psd.dat.[0-9][0-9]'): the files whose
\* index has `width` digits.
glob(dir, width) == {n \in dir : Len(Digits(n)) = width}

\* psd_files (psd.py:30-31), as the chain indices of the files in the order
\* they are read.
psd_files(dir) == SortedNames(glob(dir, 1)) \o SortedNames(glob(dir, 2))

\* ------------------------------------------------- queries on a summary
\* A table with its index: rows are records, lvls the names of the index
\* levels, outermost first.  run.psd_summary has the levels (CHANNEL, TIME,
\* FREQ); run.psd_summary.loc[channel], the table plot.py hands to
\* freq_slice and time_slice, has (TIME, FREQ).

\* LabelEq as "at most": every row up to the key.
LabelAtMost(r, level, key) ==
    IF level = "CHANNEL" THEN FALSE ELSE r[level] <= key

\* A label of a level against a number: a channel name is never equal to a
\* number.
LabelEq(r, level, key) == IF level = "CHANNEL" THEN FALSE ELSE r[level] = key

DropLevel(r, level) == [fld \in (DOMAIN r) \ {level} |-> r[fld]]

\* DataFrame.xs(key): the rows whose label of the outermost level is key,
\* without that level; KeyError when there is none.
xs(rows, lvls, key) ==
    LET hit(r) == LabelEq(r, lvls[1], key)
        hits == SelectSeq(rows, hit)
    IN IF hits = <<>> THEN [status |-> "KeyError", rows |-> <<>>]
       ELSE [status |-> "ok",
             rows |-> [k \in 1..Len(hits) |-> DropLevel(hits[k], lvls[1])]]

\* summary.loc[channel]
loc(rows, channel) ==
    LET hit(r) == r.CHANNEL = channel
        hits == SelectSeq(rows, hit)
    IN [k \in 1..Len(hits) |-> DropLevel(hits[k], "CHANNEL")]

\* summary.index.unique(level='TIME')
RECURSIVE UniqueTime(_, _)
UniqueTime(rows, seen) ==
    IF rows = <<>> THEN <<>>
    ELSE IF Head(rows).TIME \in seen THEN UniqueTime(Tail(rows), seen)
    ELSE <<Head(rows).TIME>> \o UniqueTime(Tail(rows), seen \cup {Head(rows).TIME})

\* np.round(num / den), den > 0: to the nearest integer, a half to the even
\* one.
np_round(num, den) ==
    LET q == num \div den
        r == num - q * den
    IN IF 2 * r < den THEN q
       ELSE IF 2 * r > den THEN q + 1
       ELSE IF q % 2 = 0 THEN q ELSE q + 1

SeqMax(s) == CHOOSE x \in Range(s) : \A y \in Range(s) : y <= x
SeqMin(s) == CHOOSE x \in Range(s) : \A y \in Range(s) : x <= y

\* np.round(approx_freqs / (np.max(freqs) - np.min(freqs)) * len(freqs))
\* for one input; the quotient is taken exactly.
freq_index(freqs, approx) ==
    np_round(approx * Len(freqs), SeqMax(freqs) - SeqMin(freqs))

\* freqs[freq_indices]: an index from -len to -1 counts from the end, an index
\* outside -len .. len-1 raises IndexError.  (Sequences start at 1.)
TakeAt(freqs, indices) ==
    LET n == Len(freqs)
    IN IF \E k \in 1..Len(indices) : indices[k] < -n \/ indices[k] > n - 1
       THEN [status |-> "IndexError", values |-> <<>>]
       ELSE [status |-> "ok",
             values |-> [k \in 1..Len(indices) |->
                 IF indices[k] < 0 THEN freqs[n + indices[k] + 1]
                 ELSE freqs[indices[k] + 1]]]

\* get_exact_freq(summary, approx_freqs) on a table of levels (TIME, FREQ)
\* that holds at least two frequencies at its first time.
get_exact_freq(rows, approx) ==
    LET times == UniqueTime(rows, {})
        first == xs(rows, <<"TIME", "FREQ">>, times[1]).rows
        freqs == [k \in 1..Len(first) |-> first[k].FREQ]
        freq_indices == [k \in 1..Len(approx) |-> freq_index(freqs, approx[k])]
    IN TakeAt(freqs, freq_indices)

\* ------------------------------------------------------------------- state
VARIABLES
    gps_times,      \* Run.gps_times: the sorted times of the time windows
    missing_times,  \* Run.missing_times
    data,           \* time -> the psd.dat files of the windows read so far
    irregular,      \* an irregular window has been read
    pc,             \* where save_summary (or the operation under test) stands
    killed,         \* the process was stopped before save_summary returned
    i,              \* windows summarized so far (the loop of psd.py:102)
    summaries,      \* the list of window summaries, then the table
    psd_file,       \* the artifact run.psd_file on disk
    previous,       \* the artifact as it was before save_summary began
    writes,         \* calls of to_pickle
    loaded,         \* what a reader of run.psd_file got from read_pickle
    samples,        \* hpd: the sample vector
    alpha,          \* hpd: alpha in tenths
    interval,       \* hpd: the interval returned
    order,          \* the times of the windows in the order of their summaries
    time_dir,       \* import_time: the chain indices of the files of the window
    time_data,      \* import_time: the matrix returned
    summary,        \* the table handed to get_exact_freq / time_slice
    levels,         \* the names of the index levels of summary
    approx_freqs,   \* get_exact_freq: the input frequencies
    exact_freqs,    \* get_exact_freq: the frequencies returned
    gps_time,       \* time_slice: the time asked for
    tslice          \* time_slice: the slice returned

vars == <<gps_times, missing_times, data, irregular, pc, killed, i, summaries,
          psd_file, previous, writes, loaded, samples, alpha, interval,
          order, time_dir, time_data, summary, levels, approx_freqs,
          exact_freqs, gps_time, tslice>>

runVars == <<gps_times, missing_times>>
hpdVars == <<samples, alpha, interval>>
importVars == <<time_dir, time_data>>
queryVars == <<summary, levels, approx_freqs, exact_freqs, gps_time, tslice>>
pureVars == <<hpdVars, order, importVars, queryVars>>
buildVars == <<data, irregular, killed, i, summaries, psd_file, previous,
               writes, loaded>>

\* Subsets of S with at most k elements.
RECURSIVE SubsetsUpTo(_, _)
SubsetsUpTo(S, k) ==
    IF k <= 0 THEN {{}}
    ELSE LET smaller == SubsetsUpTo(S, k - 1)
         IN smaller \cup {D \cup {x} : D \in smaller, x \in S}

\* The time lists of the runs: a run that can be constructed has at least two
\* windows (np.median of no difference is nan and int(nan) raises), and its
\* first window is at time 1.
TimeLists(maxTime, maxWindows) ==
    {SetToSeq({1} \cup T) : T \in SubsetsUpTo(2..maxTime, maxWindows - 1) \ {{}}}

\* An artifact left by an earlier build of the run.
OldTable == <<FillerRow(channels[1], 1, 1)>>

NoFile == [exists |-> FALSE, bytes |-> <<>>]

NotLoaded == [status |-> "none", table |-> <<>>, at |-> "none"]

\* No window is being imported on its own.
NoImport == time_dir = {} /\ time_data = <<>>

\* No table is being queried.
NoQuery ==
    /\ summary = <<>> /\ levels = <<>>
    /\ approx_freqs = <<>> /\ exact_freqs = <<>>
    /\ gps_time = 0 /\ tslice = <<>>

Init ==
    /\ gps_times \in TimeLists(MaxTime, MaxWindows)
    /\ missing_times = get_missing_times(gps_times)
    /\ data = <<>>
    /\ irregular = FALSE
    /\ pc = "summarize"
    /\ killed = FALSE
    /\ i = 0
    /\ summaries = <<>>
    /\ previous \in {NoFile, [exists |-> TRUE, bytes |-> Pickle(OldTable)]}
    /\ psd_file = previous
    /\ writes = 0
    /\ loaded = NotLoaded
    /\ samples = <<>>
    /\ alpha = 0
    /\ interval = <<>>
    /\ order = <<>>
    /\ NoImport
    /\ NoQuery

\* The files of a window: n files whose samples are BaseSample except at the
\* places of dev.
Window(n, dev) ==
    [j \in 1..n |-> [f \in FreqAxis |-> [c \in ChannelSet |->
        IF <<j, f, c>> \in DOMAIN dev THEN dev[<<j, f, c>>] ELSE BaseSample]]]

NominalWindow == Window(MaxChains, <<>>)

\* A window with fewer files, or with one sample off the nominal value.
IrregularWindows ==
    {Window(n, <<>>) : n \in 1..(MaxChains - 1)}
    \cup {Window(MaxChains, p :> v) :
            p \in (1..MaxChains) \X FreqAxis \X ChannelSet,
            v \in SampleValues \ {BaseSample}}

\* One turn of the loop of psd.py:102-105 on a window whose import succeeds.
\* The files found in the window are an input; a run holds at most one
\* irregular window.
SummarizeWindow ==
    /\ pc = "summarize" /\ ~killed
    /\ i < Len(gps_times)
    /\ \E w \in {NominalWindow} \cup (IF irregular THEN {} ELSE IrregularWindows) :
          /\ data' = data @@ (gps_times[i + 1] :> w)
          /\ irregular' = (irregular \/ w # NominalWindow)
          /\ summaries' = Append(summaries, summarize_psd(gps_times[i + 1], w))
    /\ i' = i + 1
    /\ UNCHANGED <<runVars, pc, killed, psd_file, previous, writes, loaded,
                   pureVars>>

\* WindowFails with the error swallowed and the loop going on.
WindowSkipped ==
    /\ pc = "summarize" /\ ~killed
    /\ i < Len(gps_times)
    /\ data' = data @@ (gps_times[i + 1] :> <<>>)
    /\ i' = i + 1
    /\ UNCHANGED <<runVars, irregular, pc, killed, summaries, psd_file,
                   previous, writes, loaded, pureVars>>

\* The window holds no psd.dat file: import_time raises and nothing catches
\* it, so save_summary ends there.
WindowFails ==
    /\ pc = "summarize" /\ ~killed
    /\ i < Len(gps_times)
    /\ ImportFails(<<>>)
    /\ data' = data @@ (gps_times[i + 1] :> <<>>)
    /\ pc' = "failed"
    /\ UNCHANGED <<runVars, irregular, killed, i, summaries, psd_file, previous,
                   writes, loaded, pureVars>>

\* psd.py:107-120
Fill ==
    /\ pc = "summarize" /\ ~killed
    /\ i = Len(gps_times)
    /\ summaries' = FillGaps(Flatten(summaries), missing_times)
    /\ pc' = "open"
    /\ UNCHANGED <<runVars, data, irregular, killed, i, psd_file, previous,
                   writes, loaded, pureVars>>

\* psd.py:146, to_pickle opens run.psd_file for writing, which truncates it.
OpenFile ==
    /\ pc = "open" /\ ~killed
    /\ psd_file' = [exists |-> TRUE, bytes |-> <<>>]
    /\ writes' = writes + 1
    /\ pc' = "write"
    /\ UNCHANGED <<runVars, data, irregular, killed, i, summaries, previous,
                   loaded, pureVars>>

\* psd.py:146-147, the pickle is written and the table returned.
WriteFile ==
    /\ pc = "write" /\ ~killed
    /\ psd_file' = [exists |-> TRUE, bytes |-> Pickle(summaries)]
    /\ pc' = "done"
    /\ UNCHANGED <<runVars, data, irregular, killed, i, summaries, previous,
                   writes, loaded, pureVars>>

\* The process is stopped before save_summary returns.
Interrupt ==
    /\ pc \in {"summarize", "open", "write"} /\ ~killed
    /\ killed' = TRUE
    /\ UNCHANGED <<runVars, data, irregular, pc, i, summaries, psd_file,
                   previous, writes, loaded, pureVars>>

\* psd.py:211, a process that keeps the existing artifact reads it.  (A read
\* before the table is built sees what a read after a failed build sees.)
Load ==
    /\ pc \in {"failed", "open", "write", "done"}
    /\ psd_file.exists
    /\ loaded.status = "none"
    /\ loaded' = IF Loadable(psd_file.bytes)
                 THEN [status |-> "ok", table |-> Unpickle(psd_file.bytes),
                       at |-> pc]
                 ELSE [status |-> "error", table |-> <<>>, at |-> pc]
    /\ UNCHANGED <<runVars, data, irregular, pc, killed, i, summaries,
                   psd_file, previous, writes, pureVars>>

Next ==
    \/ SummarizeWindow
    \/ WindowFails
    \/ Fill
    \/ OpenFile
    \/ WriteFile
    \/ Interrupt
    \/ Load

Spec == Init /\ [][Next]_vars

\* The table is built: summaries holds the sorted table, no longer the list
\* of window summaries.
Filled == pc \in {"open", "write", "done"}

\* ----------------------------------------------- Run.__init__ on its own
InitGap ==
    /\ gps_times \in TimeLists(GapMaxTime, GapMaxWindows)
                       \cup {<<0, 100, 200, 300, 500>>}
    /\ missing_times = <<>>
    /\ pc = "construct"
    /\ data = <<>> /\ irregular = FALSE /\ killed = FALSE /\ i = 0
    /\ summaries = <<>> /\ psd_file = NoFile /\ previous = NoFile
    /\ writes = 0 /\ loaded = NotLoaded
    /\ samples = <<>> /\ alpha = 0 /\ interval = <<>>
    /\ order = <<>>
    /\ NoImport
    /\ NoQuery

\* utils.py:78-86
Construct ==
    /\ pc = "construct"
    /\ missing_times' = get_missing_times(gps_times)
    /\ pc' = "ready"
    /\ UNCHANGED <<gps_times, buildVars, pureVars>>

NextGap == Construct

SpecGap == InitGap /\ [][NextGap]_vars

\* ------------------------------------------------------ hpd on its own
RECURSIVE SeqsUpTo(_, _)
SeqsUpTo(S, n) ==
    IF n = 0 THEN {<<>>}
    ELSE LET shorter == SeqsUpTo(S, n - 1)
         IN shorter \cup {Append(q, x) : q \in shorter, x \in S}

InitHpd ==
    /\ samples \in SeqsUpTo(1..MaxSampleValue, MaxSamples) \ {<<>>}
    /\ alpha \in {5, 1}
    /\ interval = <<>>
    /\ pc = "hpd"
    /\ gps_times = <<>> /\ missing_times = <<>>
    /\ data = <<>> /\ irregular = FALSE /\ killed = FALSE /\ i = 0
    /\ summaries = <<>> /\ psd_file = NoFile /\ previous = NoFile
    /\ writes = 0 /\ loaded = NotLoaded
    /\ order = <<>>
    /\ NoImport
    /\ NoQuery

\* psd.py:77-78, one row of the window handed to hpd
Estimate ==
    /\ pc = "hpd"
    /\ interval' = hpd(samples, alpha)
    /\ pc' = "estimated"
    /\ UNCHANGED <<runVars, buildVars, samples, alpha, order, importVars,
                   queryVars>>

NextHpd == Estimate

SpecHpd == InitHpd /\ [][NextHpd]_vars

\* ------------------------------------------- get_exact_freq on its own
\* One channel's table over the frequencies of axis (ascending, in units of
\* 1e-5 Hz, the precision psd.py:43 rounds to) at the times 1 and 2.
AxisTable(axis) ==
    Flatten([t \in 1..2 |->
        [k \in 1..Len(axis) |->
            [TIME |-> t, FREQ |-> axis[k], MEDIAN |-> BaseSample,
             CI_50_LO |-> BaseSample, CI_50_HI |-> BaseSample,
             CI_90_LO |-> BaseSample, CI_90_HI |-> BaseSample]]])

Axes == {SetToSeq(A) : A \in {B \in SUBSET (0..MaxFreq) : Cardinality(B) >= 2}}

ApproxInputs == (-MaxFreq)..(2 * MaxFreq)

InitFreq ==
    /\ summary \in {AxisTable(axis) : axis \in Axes}
    /\ levels = <<"TIME", "FREQ">>
    /\ approx_freqs \in {<<a, b>> : a \in ApproxInputs, b \in ApproxInputs}
    /\ exact_freqs = <<>>
    /\ gps_time = 0 /\ tslice = <<>>
    /\ pc = "lookup"
    /\ gps_times = <<>> /\ missing_times = <<>>
    /\ data = <<>> /\ irregular = FALSE /\ killed = FALSE /\ i = 0
    /\ summaries = <<>> /\ psd_file = NoFile /\ previous = NoFile
    /\ writes = 0 /\ loaded = NotLoaded
    /\ samples = <<>> /\ alpha = 0 /\ interval = <<>>
    /\ order = <<>>
    /\ NoImport

\* plot.py:135, psd.py:149-159
Lookup ==
    /\ pc = "lookup"
    /\ exact_freqs' = get_exact_freq(summary, approx_freqs)
    /\ pc' = "found"
    /\ UNCHANGED <<runVars, buildVars, hpdVars, order, importVars, summary,
                   levels, approx_freqs, gps_time, tslice>>

NextFreq == Lookup

SpecFreq == InitFreq /\ [][NextFreq]_vars

\* ---------------------------------------------- import_time on its own
\* The content of psd.dat.n: every sample tells its file, frequency and
\* channel, and is below 2.0.
FileOf(n) ==
    [f \in FreqAxis |-> [c \in ChannelSet |->
        BaseSample + 2 * ((n * NumFreqs + (f - 1)) * 6 + ChannelIndex(c))]]

InitImport ==
    /\ time_dir \in SUBSET (0..MaxFileIndex)
    /\ time_data = <<>>
    /\ pc = "import"
    /\ gps_times = <<>> /\ missing_times = <<>>
    /\ data = <<>> /\ irregular = FALSE /\ killed = FALSE /\ i = 0
    /\ summaries = <<>> /\ psd_file = NoFile /\ previous = NoFile
    /\ writes = 0 /\ loaded = NotLoaded
    /\ samples = <<>> /\ alpha = 0 /\ interval = <<>>
    /\ order = <<>>
    /\ NoQuery

\* psd.py:16-57, for the window of time 1
Import ==
    /\ pc = "import"
    /\ LET names == psd_files(time_dir)
           files == [j \in 1..Len(names) |-> FileOf(names[j])]
       IN time_data' = IF ImportFails(files)
                       THEN [status |-> "ValueError", rows |-> <<>>]
                       ELSE [status |-> "ok", rows |-> import_time(1, files)]
    /\ pc' = "imported"
    /\ UNCHANGED <<runVars, buildVars, hpdVars, order, time_dir, queryVars>>

NextImport == Import

SpecImport == InitImport /\ [][NextImport]_vars

\* ------------------------------------ the order of the window summaries
\* save_summary summarizes the windows in the order of run.time_dirs, the
\* order of the directory paths (utils.py:76), while gps_times orders their
\* last ten characters as numbers (utils.py:78-80, 93-94): the windows can
\* come in any order of their times.

\* A window of one file, and a full window with the sentinel 2.0 in the
\* first chain column of the first frequency of the first channel.
OrderWindows ==
    {Window(n, <<>>) : n \in 1..(MaxChains - 1)}
    \cup {Window(MaxChains, <<1, 1, channels[1]>> :> Two)}

InitOrder ==
    /\ gps_times \in TimeLists(MaxTime, MaxWindows)
    /\ missing_times = get_missing_times(gps_times)
    /\ data \in {[t \in Range(gps_times) |-> NominalWindow]}
          \cup {[t \in Range(gps_times) |-> IF t = u THEN w ELSE NominalWindow] :
                  u \in Range(gps_times), w \in OrderWindows}
    /\ irregular = (\E t \in Range(gps_times) : data[t] # NominalWindow)
    /\ pc = "summarize"
    /\ killed = FALSE
    /\ i = 0
    /\ summaries = <<>>
    /\ order = <<>>
    /\ psd_file = NoFile /\ previous = NoFile
    /\ writes = 0 /\ loaded = NotLoaded
    /\ samples = <<>> /\ alpha = 0 /\ interval = <<>>
    /\ NoImport
    /\ NoQuery

\* One turn of the loop of psd.py:102-105, on any window not yet summarized.
SummarizeAny ==
    /\ pc = "summarize"
    /\ \E t \in Range(gps_times) \ Range(order) :
          /\ summaries' = Append(summaries, summarize_psd(t, data[t]))
          /\ order' = Append(order, t)
    /\ i' = i + 1
    /\ UNCHANGED <<runVars, data, irregular, pc, killed, psd_file, previous,
                   writes, loaded, hpdVars, importVars, queryVars>>

NextOrder ==
    \/ SummarizeAny
    \/ Fill

SpecOrder == InitOrder /\ [][NextOrder]_vars

\* ------------------------------------------------ time_slice on its own
\* The table of a run whose window of time t holds MaxChains files of the
\* content FileOf(t).
RunTable(times) ==
    FillGaps(Flatten([k \in 1..Len(times) |->
                 summarize_psd(times[k], [j \in 1..MaxChains |-> FileOf(times[k])])]),
             get_missing_times(times))

InitSlice ==
    /\ gps_times \in TimeLists(MaxTime, MaxWindows)
    /\ missing_times = get_missing_times(gps_times)
    /\ summary = <<>> /\ levels = <<>>
    /\ gps_time \in 1..MaxTime
    /\ tslice = <<>>
    /\ approx_freqs = <<>> /\ exact_freqs = <<>>
    /\ pc = "table"
    /\ data = <<>> /\ irregular = FALSE /\ killed = FALSE /\ i = 0
    /\ summaries = <<>> /\ psd_file = NoFile /\ previous = NoFile
    /\ writes = 0 /\ loaded = NotLoaded
    /\ samples = <<>> /\ alpha = 0 /\ interval = <<>>
    /\ order = <<>>
    /\ NoImport

\* The table handed to time_slice is the run's table as save_summary
\* returns it (psd.py:209).
PassRunTable ==
    /\ pc = "table"
    /\ summary' = RunTable(gps_times)
    /\ levels' = <<"CHANNEL", "TIME", "FREQ">>
    /\ pc' = "slice"
    /\ UNCHANGED <<runVars, buildVars, hpdVars, order, importVars,
                   approx_freqs, exact_freqs, gps_time, tslice>>

\* plot.py:268, df = run.psd_summary.loc[channel]
PassChannelTable ==
    /\ pc = "table"
    /\ \E c \in ChannelSet : summary' = loc(RunTable(gps_times), c)
    /\ levels' = <<"TIME", "FREQ">>
    /\ pc' = "slice"
    /\ UNCHANGED <<runVars, buildVars, hpdVars, order, importVars,
                   approx_freqs, exact_freqs, gps_time, tslice>>

\* plot.py:181 (src/psd.py:104-105): summary.xs(time)
Slice ==
    /\ pc = "slice"
    /\ tslice' = xs(summary, levels, gps_time)
    /\ pc' = "sliced"
    /\ UNCHANGED <<runVars, buildVars, hpdVars, order, importVars, summary,
                   levels, approx_freqs, exact_freqs, gps_time>>

NextSlice ==
    \/ PassRunTable
    \/ PassChannelTable
    \/ Slice

SpecSlice == InitSlice /\ [][NextSlice]_vars

\* ------------------------------------------------------------------ claims
Table == IF Filled THEN summaries ELSE Flatten(summaries)

IsMissingRow(r) ==
    /\ r.MEDIAN = NaN
    /\ r.CI_50_LO = NaN /\ r.CI_50_HI = NaN
    /\ r.CI_90_LO = NaN /\ r.CI_90_HI = NaN

RowsAt(rows, t) == {rows[k] : k \in {m \in 1..Len(rows) : rows[m].TIME = t}}

TimeFreqPairs(rows, c) ==
    {<<rows[k].TIME, rows[k].FREQ>> : k \in {m \in 1..Len(rows) : rows[m].CHANNEL = c}}

IsSorted(rows) == \A k \in 1..(Len(rows) - 1) : ~KeyLess(rows[k + 1], rows[k])

\* The windows whose import succeeded.
Imported == {t \in DOMAIN data : ~ImportFails(data[t])}

\* C1 (as claimed): in the table save_summary returns, every channel has the
\* same set of (time, frequency) pairs.
C1_Rectangular ==
    pc = "done" =>
        \A c1 \in ChannelSet, c2 \in ChannelSet :
            TimeFreqPairs(summaries, c1) = TimeFreqPairs(summaries, c2)

\* The times a step of step2 / 2 puts strictly between the observed pairs
\* that are more than step2 / 2 + 1 apart, doubled, in ascending order.
RECURSIVE ExpectedMissing2(_, _, _)
ExpectedMissing2(times, step2, k) ==
    IF k > Len(times) - 1 THEN <<>>
    ELSE LET lo == 2 * times[k]
             hi == 2 * times[k + 1]
             between == IF hi - lo > step2 + 2
                        THEN {u \in (lo + 1)..(hi - 1) : (u - lo) % step2 = 0}
                        ELSE {}
         IN SetToSeq(between) \o ExpectedMissing2(times, step2, k + 1)

Doubled(s) == [k \in 1..Len(s) |-> 2 * s[k]]

\* C2 (as claimed): with step the median of the consecutive differences,
\* get_missing_times returns exactly the times t_i + k * step strictly
\* between the adjacent observed times more than step + 1 apart.
C2_MedianStep ==
    pc = "ready" =>
        Doubled(missing_times) = ExpectedMissing2(gps_times, dt2(gps_times), 1)

\* C2 (amended): the same with step the median truncated to an integer;
\* [0, 100, 200, 300, 500] gives exactly [400].
C2_TruncatedStep ==
    /\ pc = "ready" =>
          Doubled(missing_times)
              = ExpectedMissing2(gps_times, 2 * IntDt(gps_times), 1)
    /\ (pc = "ready" /\ gps_times = <<0, 100, 200, 300, 500>>) =>
          missing_times = <<400>>

C2_Witness ==
    /\ pc = "ready"
    /\ dt2(gps_times) % 2 = 1
    /\ Len(missing_times) >= 2

\* C3: the filling step gives every (channel, missing time, frequency of the
\* concatenated window summaries) a record whose five fields are all NaN, and
\* leaves the records at the observed times as they were.
Densified(before, after) ==
    /\ \A m \in Range(missing_times), c \in ChannelSet,
          f \in {before[k].FREQ : k \in 1..Len(before)} :
          \E k \in 1..Len(after) :
              /\ Key(after[k]) = [CHANNEL |-> c, TIME |-> m, FREQ |-> f]
              /\ IsMissingRow(after[k])
    /\ \A t \in Range(gps_times) : RowsAt(after, t) = RowsAt(before, t)
    /\ Len(after) = Len(before)
           + Cardinality({k \in 1..Len(after) : after[k].TIME \notin Range(gps_times)})

C3_Densification ==
    [][(pc = "summarize" /\ pc' = "open")
           => Densified(Flatten(summaries), summaries')]_vars

C3_Witness ==
    /\ Filled
    /\ missing_times # <<>>
    /\ \E k \in 1..Len(summaries) : IsMissingRow(summaries[k])
    /\ \E k \in 1..Len(summaries) : ~IsMissingRow(summaries[k])

CountIn(s, lo, hi) == Cardinality({k \in 1..Len(s) : lo <= s[k] /\ s[k] <= hi})

\* ceil(m * n) and floor(m * n) for the mass m = 1 - alpha, alpha in tenths.
CeilMass(n, alpha10) == ((10 - alpha10) * n + 9) \div 10
FloorMass(n, alpha10) == ((10 - alpha10) * n) \div 10

\* lo <= hi, both samples, at least `need` samples inside, and no interval
\* between two samples that holds `need` samples is shorter.
ShortestWith(s, lo, hi, need) ==
    /\ lo <= hi
    /\ lo \in Range(s) /\ hi \in Range(s)
    /\ CountIn(s, lo, hi) >= need
    /\ \A a \in Range(s), b \in Range(s) :
          (a <= b /\ CountIn(s, a, b) >= need) => b - a >= hi - lo

C6_RowDrop ==
    LET keys == Keys(Table)
    IN \A t \in Imported, c \in ChannelSet, f \in FreqAxis :
          ([CHANNEL |-> c, TIME |-> t, FREQ |-> f] \in keys)
              <=> (data[t][1][f][c] < Two)

C6_Witness ==
    \E t \in Imported, c \in ChannelSet, f \in FreqAxis :
        /\ data[t][1][f][c] = Two
        /\ [CHANNEL |-> c, TIME |-> t, FREQ |-> f] \notin Keys(Table)

\* C7 (as claimed): a triple of an observed window whose samples were dropped
\* as sentinel still has a record in the final table, all five fields NaN.
C7_DroppedRowKept ==
    pc = "done" =>
        \A t \in Imported, c \in ChannelSet, f \in FreqAxis :
            data[t][1][f][c] >= Two =>
                \E k \in 1..Len(summaries) :
                    /\ Key(summaries[k]) = [CHANNEL |-> c, TIME |-> t, FREQ |-> f]
                    /\ IsMissingRow(summaries[k])

\* C8: to_pickle is called at most once, and only with every window of the
\* run summarized and the table filled and sorted; a build that fails on a
\* window has written nothing and the artifact is as it was.
C8_AllOrNothing ==
    /\ writes <= 1
    /\ writes = 1 =>
          /\ Filled
          /\ i = Len(gps_times)
          /\ Imported = Range(gps_times)
          /\ IsSorted(summaries)
    /\ pc = "done" => writes = 1
    /\ pc = "failed" => (writes = 0 /\ psd_file = previous)

C8_Witness ==
    /\ pc = "failed"
    /\ previous.exists
    /\ i >= 1

\* C9 (as claimed): the artifact is at every moment the whole previous
\* artifact (or absent) or the whole new one.
C9_NeverPartial ==
    \/ psd_file = previous
    \/ Filled /\ psd_file = [exists |-> TRUE, bytes |-> Pickle(summaries)]

FreqsOf(rows) == {rows[k].FREQ : k \in 1..Len(rows)}

EvenlySpaced(F) ==
    \E step \in 1..MaxFreq :
        \A f \in F : f = SeqMin(SetToSeq(F)) \/ (f - step) \in F

Dist(a, b) == IF a < b THEN b - a ELSE a - b

Closest(F, x) == {f \in F : \A g \in F : Dist(f, x) <= Dist(g, x)}

\* C11 (as claimed): whenever get_exact_freq returns values for two inputs
\* approx_f1 < approx_f2, negative inputs included, the value returned for
\* approx_f1 is at most the value returned for approx_f2.
C11_Monotonic ==
    (pc = "found" /\ exact_freqs.status = "ok"
        /\ approx_freqs[1] < approx_freqs[2])
    => exact_freqs.values[1] <= exact_freqs.values[2]

\* C16 (as claimed): on an evenly spaced axis, for inputs between the axis
\* minimum and maximum inclusive, get_exact_freq returns for every input a
\* value of the axis that is closest to the input.
C16_Nearest ==
    LET F == FreqsOf(summary)
    IN (pc = "found" /\ EvenlySpaced(F)
          /\ \A k \in 1..2 : /\ SeqMin(SetToSeq(F)) <= approx_freqs[k]
                             /\ approx_freqs[k] <= SeqMax(SetToSeq(F)))
       => /\ exact_freqs.status = "ok"
          /\ \A k \in 1..2 : exact_freqs.values[k] \in Closest(F, approx_freqs[k])

\* C12 (as claimed): a window in which the file of a chain index is absent
\* while a file of a higher index is present makes import_time raise.
C12_MissingFileRaises ==
    (pc = "imported"
        /\ \E k \in 0..MaxFileIndex, n \in time_dir : k < n /\ k \notin time_dir)
    => time_data.status # "ok"

ChainSamples(t, f, c) == [j \in 1..Len(data[t]) |-> data[t][j][f][c]]

\* Twice the median of s, from its definition: the sum of the lowest sample
\* with at least half of the samples at or below it and the highest sample
\* with at least half of the samples at or above it.
ExactMedian2(s) ==
    LET half == (Len(s) + 1) \div 2
        atMost(x) == Cardinality({k \in 1..Len(s) : s[k] <= x})
        atLeast(x) == Cardinality({k \in 1..Len(s) : s[k] >= x})
        lower == CHOOSE x \in Range(s) :
                    /\ atMost(x) >= half
                    /\ \A y \in Range(s) : atMost(y) >= half => x <= y
        upper == CHOOSE x \in Range(s) :
                    /\ atLeast(x) >= half
                    /\ \A y \in Range(s) : atLeast(y) >= half => y <= x
    IN lower + upper

NoGapNoSentinel ==
    /\ missing_times = <<>>
    /\ \A t \in Range(gps_times), f \in FreqAxis, c \in ChannelSet :
          data[t][1][f][c] < Two

\* C14: for a run of W windows without time gaps and without sentinel rows
\* the table save_summary returns has exactly C * W * F records with C * W * F
\* different keys, each a (channel, time, frequency) of the run, so one for
\* every triple, and the MEDIAN of each is not NaN and is the exact median
\* of the chain samples of its triple.
C14_CountAndMedians ==
    (pc = "done" /\ NoGapNoSentinel)
    => /\ Len(summaries) = NumChannels * Len(gps_times) * NumFreqs
       /\ Cardinality(Keys(summaries)) = Len(summaries)
       /\ \A k \in 1..Len(summaries) :
             LET r == summaries[k]
             IN /\ r.CHANNEL \in ChannelSet
                /\ r.TIME \in Range(gps_times)
                /\ r.FREQ \in FreqAxis
                /\ r.MEDIAN # NaN
                /\ 2 * r.MEDIAN
                      = ExactMedian2(ChainSamples(r.TIME, r.FREQ, r.CHANNEL))

C14_Witness ==
    /\ pc = "done"
    /\ NoGapNoSentinel
    /\ Len(gps_times) = 2
    /\ Len(summaries) = NumChannels * 2 * NumFreqs
    /\ \E k \in 1..Len(summaries) : summaries[k].MEDIAN # BaseSample

\* The table of the run when its windows are summarized in ascending order
\* of their times.
AscendingTable ==
    FillGaps(Flatten([k \in 1..Len(gps_times) |->
                 summarize_psd(gps_times[k], data[gps_times[k]])]),
             missing_times)

\* C15: whatever the order in which the windows of the run were summarized
\* and concatenated, the filled and sorted table is the one the ascending
\* order gives, and it is sorted.
C15_OrderIndependent ==
    Filled => (summaries = AscendingTable /\ IsSorted(summaries))

C15_Witness ==
    /\ Filled
    /\ Len(order) = 3
    /\ order[1] > order[2]
    /\ missing_times # <<>>
    /\ \E t \in Range(gps_times) : data[t][1][1][channels[1]] = Two
    /\ summaries = AscendingTable

IndexedTimes(rows) == {rows[k].TIME : k \in 1..Len(rows)}

WithTime(r, t) == [fld \in (DOMAIN r) \cup {"TIME"} |-> IF fld = "TIME" THEN t ELSE r[fld]]

\* got is exactly the records of rows at time t, without the time axis.
ExactlyAt(got, rows, t) ==
    /\ got.status = "ok"
    /\ Len(got.rows) = Cardinality({k \in 1..Len(rows) : rows[k].TIME = t})
    /\ \A k \in 1..Len(got.rows) :
          /\ "TIME" \notin DOMAIN got.rows[k]
          /\ WithTime(got.rows[k], t) \in Range(rows)
    /\ \A k \in 1..Len(rows) :
          rows[k].TIME = t =>
              \E m \in 1..Len(got.rows) : WithTime(got.rows[m], t) = rows[k]

\* C17 (as claimed): on the run's table of index (channel, time, frequency)
\* the slice at an indexed time t is exactly the records of time t, keyed by
\* channel and frequency.
C17_WholeTable ==
    (pc = "sliced" /\ Len(levels) = 3 /\ gps_time \in IndexedTimes(summary))
    => ExactlyAt(tslice, summary, gps_time)

\* C17 (amended): on one channel's table, of index (time, frequency), the
\* slice at an indexed time t, observed or missing-marked, is exactly the
\* records of time t, keyed by frequency, and the table is left as it was.
C17_ChannelTable ==
    [][(pc = "slice" /\ pc' = "sliced" /\ Len(levels) = 2
           /\ gps_time \in IndexedTimes(summary))
       => /\ summary' = summary
          /\ ExactlyAt(tslice', summary, gps_time)
          /\ \A k \in 1..Len(tslice'.rows) :
                DOMAIN tslice'.rows[k] = (DOMAIN summary[1]) \ {"TIME"}]_vars

C17_Witness ==
    /\ pc = "sliced"
    /\ Len(levels) = 2
    /\ gps_time \in Range(missing_times)
    /\ tslice.status = "ok"
    /\ Len(tslice.rows) = NumFreqs
    /\ \A k \in 1..Len(tslice.rows) : tslice.rows[k].MEDIAN = NaN

====
